---- MODULE Spec2Model ----
(***************************************************************************)
(* A model of allot (src/allot.py): Cluster construction (capacity         *)
(* planning, node acquisition, task dispatch), the Node health state       *)
(* machine and the Task lifecycle state machine driven by polling.         *)
(*                                                                         *)
(* Environment: every remote health probe is the command `nproc`; it is    *)
(* in flight until it exits with a return code and a captured stdout.      *)
(* A probe that exits 0 has printed the CPU count of its machine as a     *)
(* decimal integer, possibly followed by a newline (what nproc prints); a  *)
(* probe that exits non-zero may have printed anything, a number included. *)
(* Remote tasks create and append to their output files at any time; time  *)
(* is counted in ticks of 1/Resolution second.                             *)
(***************************************************************************)
EXTENDS Integers, Sequences, FiniteSets, TLC

\* ------------------------------------------------------------------ bounds
MaxHint     == 5    \* capacity hints range over -1..MaxHint
NCand       == 3    \* size of the candidate pool handed to the Cluster
MaxPlan     == 2    \* a capacity hint of a Cluster that is built: 0 or MaxPlan
MaxSlots    == 4    \* largest nnodes * ntasks_per_node of a Cluster that is built
MaxSweeps   == 2    \* polls of one candidate by the acquisition loop
Resolution  == 2    \* clock ticks per second
StartTime   == 10   \* time.time() when the Cluster is constructed, in seconds
MaxWrites   == 3    \* appends to one output file
EnvSteps    == 2    \* output-file and clock events during a whole construction
EnvStepsTask == 6   \* output-file and clock events of the single-task scenario

\* ------------------------------------------------------- program constants
NODE_TASK_DENSITY         == 4
FILE_MODIFICATION_TIMEOUT == 7200

VARIABLES
    pc,               \* position inside Cluster.__init__ / the caller's loop
    hints,            \* the arguments ntasks, nnodes, ntasks_per_node
    ntasks,           \* Cluster.ntasks
    nnodes,           \* Cluster.nnodes
    ntasks_per_node,  \* Cluster.ntasks_per_node
    built,            \* number of Node objects constructed from the roster
    status,           \* Node.status of every candidate
    nproc,            \* Node.nproc
    status_process,   \* Node.status_process is not None
    probe,            \* the remote health probe behind status_process
    tasks,            \* Node.tasks, a list of Task records
    nodes,            \* Cluster.nodes, a list of candidates
    nodes_to_check,   \* the work queue of Cluster.__init_nodes
    ai,               \* node_id, local_id of Cluster.__assign_tasks_to_nodes
    upd,              \* position of Cluster.update_node_statuses in Cluster.nodes
    files,            \* the output files, by the proc_id of the task writing them
    clock,            \* time.time(), in ticks
    env_left,         \* output-file and clock events the environment may still do
    last,             \* history: the most recent step and what it observed
    seen,             \* history: the mtime the latest stat of each output file saw
    rank,             \* history: order in which the probes exited 0 (0: has not)
    polls             \* history: acquisition polls of each candidate

cluster_vars == <<pc, hints, ntasks, nnodes, ntasks_per_node, built, nodes, nodes_to_check, ai, upd>>
node_vars    == <<status, nproc, status_process, probe, tasks>>
env_vars     == <<files, clock, env_left>>
hist_vars    == <<last, seen, rank, polls>>
vars == <<cluster_vars, node_vars, env_vars, hist_vars>>

\* ---------------------------------------------------- capacity planning
Hints == (0 - 1)..MaxHint

\* the quotient is rounded down
FloorDiv(a, b) == a \div b

\* math.ceil(a / b) for positive b
CeilDiv(a, b) == (a + b - 1) \div b

\* ntasks is always set to fill the grid
PlannedFull(nt, nn, np) == [ok |-> TRUE, ntasks |-> nn * np, nnodes |-> nn, ntasks_per_node |-> np]

Planned(nt, nn, np) == [ok |-> TRUE, ntasks |-> nt, nnodes |-> nn, ntasks_per_node |-> np]
Invalid == [ok |-> FALSE, ntasks |-> 0, nnodes |-> 0, ntasks_per_node |-> 0]

\* the triple check accepts only exact fits
set_params_strict(nt, nn, np) ==
    LET has_ntasks == nt > 0
        has_nodes  == nn > 0
        has_ntasks_per_node == np > 0
    IN  CASE has_ntasks /\ ~has_nodes /\ ~has_ntasks_per_node ->
               Planned(nt, CeilDiv(nt, NODE_TASK_DENSITY), NODE_TASK_DENSITY)
          [] ~has_ntasks /\ has_nodes /\ ~has_ntasks_per_node ->
               Planned(nn, nn, 1)
          [] has_ntasks /\ has_nodes /\ ~has_ntasks_per_node ->
               Planned(nt, nn, CeilDiv(nt, nn))
          [] ~has_ntasks /\ has_nodes /\ has_ntasks_per_node ->
               Planned(nn * np, nn, np)
          [] has_ntasks /\ ~has_nodes /\ has_ntasks_per_node ->
               Planned(nt, CeilDiv(nt, np), np)
          [] has_ntasks /\ has_nodes /\ has_ntasks_per_node ->
               IF nt >= nn * np THEN Invalid ELSE Planned(nt, nn, np)
          [] OTHER -> Invalid

\* Cluster.__set_params: the match over (has_ntasks, has_nodes, has_ntasks_per_node)
set_params(nt, nn, np) ==
    LET has_ntasks == nt > 0
        has_nodes  == nn > 0
        has_ntasks_per_node == np > 0
    IN  CASE has_ntasks /\ ~has_nodes /\ ~has_ntasks_per_node ->
               Planned(nt, CeilDiv(nt, NODE_TASK_DENSITY), NODE_TASK_DENSITY)
          [] ~has_ntasks /\ has_nodes /\ ~has_ntasks_per_node ->
               Planned(nn, nn, 1)
          [] has_ntasks /\ has_nodes /\ ~has_ntasks_per_node ->
               Planned(nt, nn, CeilDiv(nt, nn))
          [] ~has_ntasks /\ has_nodes /\ has_ntasks_per_node ->
               Planned(nn * np, nn, np)
          [] has_ntasks /\ ~has_nodes /\ has_ntasks_per_node ->
               Planned(nt, CeilDiv(nt, np), np)
          [] has_ntasks /\ has_nodes /\ has_ntasks_per_node ->
               IF nt > nn * np THEN Invalid ELSE Planned(nt, nn, np)
          [] OTHER -> Invalid

\* ------------------------------------------------------------- text
STX == "\\x02"
ETX == "\\x03"
Digits == <<"0", "1", "2", "3", "4", "5", "6", "7", "8", "9">>
IsDigit(c) == \E d \in 1..10 : Digits[d] = c
DigitVal(c) == (CHOOSE d \in 1..10 : Digits[d] = c) - 1
IsSpace(c) == c \in {" ", "\n"}

RECURSIVE Decimal(_)
\* the value of a sequence of decimal digits
Decimal(s) ==
    IF Len(s) = 0 THEN 0
    ELSE 10 * Decimal(SubSeq(s, 1, Len(s) - 1)) + DigitVal(s[Len(s)])

RECURSIVE Strip(_)
\* the surrounding whitespace int() skips
Strip(s) ==
    IF Len(s) = 0 THEN s
    ELSE IF IsSpace(s[1]) THEN Strip(Tail(s))
    ELSE IF IsSpace(s[Len(s)]) THEN Strip(SubSeq(s, 1, Len(s) - 1))
    ELSE s

IntOfStripped(t) ==
    IF Len(t) > 0 /\ \A k \in 1..Len(t) : IsDigit(t[k]) THEN Decimal(t) ELSE 0 - 1

\* int(s): the integer, or -1 where int() raises ValueError
IntOf(s) == IntOfStripped(Strip(s))

RECURSIVE DigitsEnd(_, _)
\* the end of the longest run of digits of s that starts at i (i - 1: none)
DigitsEnd(s, i) ==
    IF i <= Len(s) /\ IsDigit(s[i]) THEN DigitsEnd(s, i + 1) ELSE i - 1

\* (\d+)\x03 from e1 + 2, after \x02(\d+)/ matched s[i..e1 + 1]
MatchTotal(s, i, e1, e2) ==
    IF e2 < e1 + 2 \/ e2 + 1 > Len(s) \/ s[e2 + 1] # ETX THEN <<>>
    ELSE <<e2 + 1, SubSeq(s, i + 1, e1), SubSeq(s, e1 + 2, e2)>>

\* (\d+)/ from i + 1, after \x02 matched s[i]
MatchCurrent(s, i, e1) ==
    IF e1 < i + 1 \/ e1 + 1 > Len(s) \/ s[e1 + 1] # "/" THEN <<>>
    ELSE MatchTotal(s, i, e1, DigitsEnd(s, e1 + 2))

\* r"\x02(\d+)/(\d+)\x03" matched at position i: <<end, current, total>> or <<>>
MatchAt(s, i) ==
    IF i > Len(s) \/ s[i] # STX THEN <<>>
    ELSE MatchCurrent(s, i, DigitsEnd(s, i + 1))

RECURSIVE FindAllFrom(_, _)
FindAllNext(s, i, m) ==
    IF m = <<>> THEN FindAllFrom(s, i + 1)
    ELSE <<(<<m[2], m[3]>>)>> \o FindAllFrom(s, m[1] + 1)

\* the non-overlapping matches from position i on, left to right
FindAllFrom(s, i) ==
    IF i > Len(s) THEN <<>> ELSE FindAllNext(s, i, MatchAt(s, i))

\* re.findall(r"\x02(\d+)/(\d+)\x03", filestr)
findall(s) == FindAllFrom(s, 1)

\* ------------------------------------------------------------- tasks
\* Task(cmds, output_file, config) as the task factory builds it
NewTask(cpus, local_id, node_id, proc_id) ==
    [status |-> "NOT_STARTED", last_update |-> 0, progress |-> 0, total |-> 0,
     cpus_on_node |-> cpus, local_id |-> local_id, node_id |-> node_id,
     proc_id |-> proc_id]

Took(task, path) == [task |-> task, path |-> path]

\* task.progress, task.total = int(progress), int(total), then the FINISHED test
with_marker(task, progress, total) ==
    Took([task EXCEPT !.progress = progress, !.total = total,
                      !.status = IF progress = total THEN "FINISHED" ELSE @],
         "marker")

\* the first marker of the file counts
with_instances_first(task, progress_instances) ==
    IF Len(progress_instances) = 0 THEN Took(task, "no_marker")
    ELSE with_marker(task, IntOf(progress_instances[1][1]),
                           IntOf(progress_instances[1][2]))

\* the last of the progress instances counts; none leaves the task as it is
with_instances(task, progress_instances) ==
    IF Len(progress_instances) = 0 THEN Took(task, "no_marker")
    ELSE with_marker(task, IntOf(progress_instances[Len(progress_instances)][1]),
                           IntOf(progress_instances[Len(progress_instances)][2]))

\* the stall test is strict: a file exactly the timeout old is not yet stale
running_stat_strict(task, f, now, modification_time) ==
    IF (modification_time + FILE_MODIFICATION_TIMEOUT) * Resolution < now
    THEN Took([task EXCEPT !.status = "STALLED"], "stalled")
    ELSE IF modification_time = task.last_update THEN Took(task, "same_mtime")
    ELSE with_instances(task, findall(f.content))

\* the file is read first: a final marker finishes the task however stale
\* the file is
running_stat_read_first(task, f, now, modification_time) ==
    IF with_instances(task, findall(f.content)).task.status = "FINISHED"
    THEN with_instances(task, findall(f.content))
    ELSE IF (modification_time + FILE_MODIFICATION_TIMEOUT) * Resolution <= now
    THEN Took([task EXCEPT !.status = "STALLED"], "stalled")
    ELSE IF modification_time = task.last_update THEN Took(task, "same_mtime")
    ELSE with_instances(task, findall(f.content))

\* the RUNNING case after the stat: modification_time + FILE_MODIFICATION_TIMEOUT
\* <= time.time(), then the unchanged-mtime test, then the read
running_stat(task, f, now, modification_time) ==
    IF (modification_time + FILE_MODIFICATION_TIMEOUT) * Resolution <= now
    THEN Took([task EXCEPT !.status = "STALLED"], "stalled")
    ELSE IF modification_time = task.last_update THEN Took(task, "same_mtime")
    ELSE with_instances(task, findall(f.content))

\* Node.__update_task, case TaskStatus.RUNNING; stat raises on a missing file
running(task, f, now) ==
    IF ~f.exists THEN Took(task, "raise")
    ELSE running_stat(task, f, now, f.mtime \div Resolution)

\* only STALLED is final: a FINISHED task is polled like a RUNNING one
update_task_finished_polled(task, f, now) ==
    CASE task.status = "NOT_STARTED" -> Took(task, "not_started")
      [] task.status = "RUNNING_EARLY" ->
            IF f.exists THEN running([task EXCEPT !.status = "RUNNING"], f, now)
            ELSE Took(task, "early")
      [] task.status = "STALLED" -> Took(task, "terminal")
      [] task.status \in {"RUNNING", "FINISHED"} -> running(task, f, now)

\* Node.__update_task: the task after the poll and the branch the poll took
update_task(task, f, now) ==
    CASE task.status = "NOT_STARTED" -> Took(task, "not_started")
      [] task.status = "RUNNING_EARLY" ->
            IF f.exists THEN running([task EXCEPT !.status = "RUNNING"], f, now)
            ELSE Took(task, "early")
      [] task.status \in {"STALLED", "FINISHED"} -> Took(task, "terminal")
      [] task.status = "RUNNING" -> running(task, f, now)

\* the branches of __update_task that stat, and that read, the output file
StatPaths == {"raise", "stalled", "same_mtime", "no_marker", "marker"}
ReadPaths == {"no_marker", "marker"}

UpdateMerge(prev, k, r) ==
    [tasks  |-> [prev.tasks EXCEPT ![k] = r.task],
     paths  |-> Append(prev.paths, r.path),
     raised |-> r.path = "raise"]

UpdateNext(prev, k, fs, now) ==
    IF prev.raised THEN prev
    ELSE UpdateMerge(prev, k, update_task(prev.tasks[k], fs[prev.tasks[k].proc_id], now))

RECURSIVE update_tasks(_, _, _, _)
\* for task in self.tasks: self.__update_task(task), over the first k tasks;
\* an exception ends the loop
update_tasks(ts, k, fs, now) ==
    IF k = 0 THEN [tasks |-> ts, paths |-> <<>>, raised |-> FALSE]
    ELSE UpdateNext(update_tasks(ts, k - 1, fs, now), k, fs, now)

\* ------------------------------------------------------------- nodes
InFlight == [st |-> "flight", rc |-> 0, out |-> <<>>]
NoProbe  == [st |-> "none", rc |-> 0, out |-> <<>>]
Exited(rc, out) == [st |-> "exited", rc |-> rc, out |-> out]

Polled(st, np, ts, paths, raised) ==
    [status |-> st, nproc |-> np, tasks |-> ts, paths |-> paths, raised |-> raised]

\* self.nproc = int(stdout); self.status = NodeStatus.UP
parsed(np, ts, count) ==
    IF count < 0 THEN Polled("CHECKING", np, ts, <<>>, TRUE)
    ELSE Polled("UP", count, ts, <<>>, FALSE)

\* the return code is not looked at: every probe that exited is parsed
checking_ignore_rc(np, pr, ts) ==
    IF pr.st = "flight" THEN Polled("CHECKING", np, ts, <<>>, FALSE)
    ELSE parsed(np, ts, IntOf(pr.out))

\* Node.get_and_update_status, case NodeStatus.CHECKING
checking(np, pr, ts) ==
    IF pr.st = "flight" THEN Polled("CHECKING", np, ts, <<>>, FALSE)
    ELSE IF pr.rc # 0 THEN Polled("DOWN", np, ts, <<>>, FALSE)
    ELSE parsed(np, ts, IntOf(pr.out))

up(st, np, r) == Polled(st, np, r.tasks, r.paths, r.raised)

\* a DOWN node polls its tasks as an UP node does
get_and_update_status_down_polls(st, np, pr, ts, fs, now) ==
    CASE st = "CHECKING" -> checking(np, pr, ts)
      [] st \in {"UP", "DOWN"} -> up(st, np, update_tasks(ts, Len(ts), fs, now))

\* a CHECKING node polls its tasks as an UP node does
get_and_update_status_checking_polls(st, np, pr, ts, fs, now) ==
    CASE st = "DOWN" -> Polled("DOWN", np, ts, <<>>, FALSE)
      [] st = "CHECKING" -> up(checking(np, pr, ts).status, checking(np, pr, ts).nproc,
                               update_tasks(ts, Len(ts), fs, now))
      [] st = "UP" -> up("UP", np, update_tasks(ts, Len(ts), fs, now))

\* Node.get_and_update_status on a node with status st, nproc np, probe pr and
\* tasks ts, with the output files fs at time now
get_and_update_status(st, np, pr, ts, fs, now) ==
    CASE st = "DOWN" -> Polled("DOWN", np, ts, <<>>, FALSE)
      [] st = "CHECKING" -> checking(np, pr, ts)
      [] st = "UP" -> up("UP", np, update_tasks(ts, Len(ts), fs, now))

\* ------------------------------------------------------- environment
Cand    == 1..NCand
ProcIds == 0..(MaxSlots - 1)

\* what the probe of candidate n leaves when it exits: nproc prints the count
\* of the machine, 8 on one and 12 on the next, and exits 0; or ssh or the
\* remote command fails with a non-zero code, whatever is on stdout
NprocOutput(n) == IF n % 2 = 1 THEN <<"8">> ELSE <<"1", "2", "\n">>
OutcomesOf(n)  == { Exited(0, NprocOutput(n)), Exited(255, <<"8">>) }

\* what a task writes to its output file in one piece
Marker(c, t) == <<STX>> \o c \o <<"/">> \o t \o <<ETX>>
Chunks == { <<"x">>,
            <<STX, "x", STX>>,
            Marker(<<"1">>, <<"2">>),
            Marker(<<"2">>, <<"2">>),
            Marker(<<"1", "0">>, <<"1", "0">>),
            <<STX, "0", "2">>,
            <<"/", "2", ETX>> }

NoFile == [exists |-> FALSE, mtime |-> 0, content |-> <<>>, writes |-> 0]

\* the clock moves by one tick, or to one tick short of the stall window
TickSteps == {1, Resolution * FILE_MODIFICATION_TIMEOUT - 1}

Max(S) == CHOOSE x \in S : \A y \in S : y <= x
NextRank == Max({rank[n] : n \in Cand}) + 1

Dispatched(p) == \E n \in Cand : \E k \in 1..Len(tasks[n]) : tasks[n][k].proc_id = p

\* ------------------------------------------------------------ history
NoPoll(op) ==
    [op |-> op, node |-> 0, pre_status |-> "-", pre_nproc |-> 0, pre_tasks |-> <<>>,
     pre_seen |-> <<>>, paths |-> <<>>, raised |-> FALSE]
PollOf(op, n, pre_status, r) ==
    [op |-> op, node |-> n, pre_status |-> pre_status, pre_nproc |-> nproc[n],
     pre_tasks |-> tasks[n],
     pre_seen |-> [k \in 1..Len(tasks[n]) |-> seen[tasks[n][k].proc_id]],
     paths |-> r.paths, raised |-> r.raised]
\* the mtimes the stats of a poll saw, in whole seconds
SeenAfter(r) ==
    [p \in ProcIds |->
        IF \E k \in 1..Len(r.paths) :
              r.tasks[k].proc_id = p /\ r.paths[k] \in StatPaths \ {"raise"}
        THEN files[p].mtime \div Resolution
        ELSE seen[p]]

\* ------------------------------------------------------------ actions
\* Cluster.__init__ up to and including the call of __set_params
Configure(r) ==
    IF r.ok
    THEN /\ ntasks' = r.ntasks
         /\ nnodes' = r.nnodes
         /\ ntasks_per_node' = r.ntasks_per_node
         /\ pc' = "build"
    ELSE /\ pc' = "config_error"
         /\ UNCHANGED <<ntasks, nnodes, ntasks_per_node>>

SetParams ==
    /\ pc = "params"
    /\ Configure(set_params(hints.ntasks, hints.nnodes, hints.ntasks_per_node))
    /\ last' = NoPoll("set_params")
    /\ UNCHANGED <<hints, built, nodes, nodes_to_check, ai, upd>>
    /\ UNCHANGED <<node_vars, env_vars, seen, rank, polls>>

\* node.get_and_update_status() of node n
PollResult(n) ==
    get_and_update_status(status[n], nproc[n], probe[n], tasks[n], files, clock)

\* what a call that returned r leaves in node n
Poll(op, n, r) ==
    /\ status' = [status EXCEPT ![n] = r.status]
    /\ nproc'  = [nproc EXCEPT ![n] = r.nproc]
    /\ tasks'  = [tasks EXCEPT ![n] = r.tasks]
    /\ last'   = PollOf(op, n, status[n], r)
    /\ seen'   = SeenAfter(r)

\* the constructor keeps the probe handle only if its poll left the node CHECKING
Construct_releasing(n, pr, r) ==
    /\ probe' = [probe EXCEPT ![n] = pr]
    /\ status_process' = [status_process EXCEPT ![n] = r.status = "CHECKING"]
    /\ rank' = [rank EXCEPT ![n] = IF pr.st = "exited" /\ pr.rc = 0 THEN NextRank ELSE 0]
    /\ status' = [status EXCEPT ![n] = r.status]
    /\ nproc'  = [nproc EXCEPT ![n] = r.nproc]
    /\ tasks'  = [tasks EXCEPT ![n] = r.tasks]
    /\ last'   = PollOf("node_init", n, "CHECKING", r)
    /\ built' = n
    /\ pc' = IF r.raised THEN "crashed" ELSE IF n = NCand THEN "init_nodes" ELSE "build"
    /\ nodes_to_check' = IF n = NCand /\ ~r.raised THEN [k \in 1..NCand |-> k]
                         ELSE nodes_to_check

\* Node.__init__ of roster entry n, whose probe is pr when the constructor polls
\* it, the poll returning r
Construct(n, pr, r) ==
    /\ probe' = [probe EXCEPT ![n] = pr]
    /\ status_process' = [status_process EXCEPT ![n] = TRUE]
    /\ rank' = [rank EXCEPT ![n] = IF pr.st = "exited" /\ pr.rc = 0 THEN NextRank ELSE 0]
    /\ status' = [status EXCEPT ![n] = r.status]
    /\ nproc'  = [nproc EXCEPT ![n] = r.nproc]
    /\ tasks'  = [tasks EXCEPT ![n] = r.tasks]
    /\ last'   = PollOf("node_init", n, "CHECKING", r)
    /\ built' = n
    /\ pc' = IF r.raised THEN "crashed" ELSE IF n = NCand THEN "init_nodes" ELSE "build"
    /\ nodes_to_check' = IF n = NCand /\ ~r.raised THEN [k \in 1..NCand |-> k]
                         ELSE nodes_to_check

\* Node(name, address) for the next roster entry: the probe is sent and polled
\* at once; it is usually still in flight then, but may have exited already.
\* After the last entry __init_nodes copies the roster into its work queue
NodeInit ==
    /\ pc = "build"
    /\ built < NCand
    /\ \E pr \in {InFlight} \cup OutcomesOf(built + 1) :
         Construct(built + 1, pr,
                   get_and_update_status("CHECKING", 0, pr, <<>>, files, clock))
    /\ UNCHANGED <<hints, ntasks, nnodes, ntasks_per_node, nodes, ai, upd>>
    /\ UNCHANGED <<env_vars, seen, polls>>

\* the nodes some loop will still poll
Watched ==
    { n \in Cand : \/ pc = "build"
                   \/ \E k \in 1..Len(nodes_to_check) : nodes_to_check[k] = n
                   \/ \E k \in 1..Len(nodes) : nodes[k] = n }

\* probes in flight exit, one or several at the same time; the exit of a probe
\* whose node is polled no more is not followed
ProbeExits(ranked) ==
    /\ \E S \in SUBSET {n \in Watched : probe[n].st = "flight"} :
         /\ S # {}
         /\ \E f \in [S -> UNION { OutcomesOf(n) : n \in S }] :
              /\ \A n \in S : f[n] \in OutcomesOf(n)
              /\ probe' = [n \in Cand |-> IF n \in S THEN f[n] ELSE probe[n]]
              /\ rank'  = [n \in Cand |->
                              IF ranked /\ n \in S /\ f[n].rc = 0 /\ pc # "running"
                              THEN NextRank ELSE rank[n]]
    /\ last' = NoPoll("probe_exit")
    /\ UNCHANGED <<cluster_vars, status, nproc, status_process, tasks, env_vars, seen, polls>>

\* the exits are ranked in the order they happen in
ProbeExit == ProbeExits(TRUE)

\* the same exits with their order not recorded
ProbeExitUnranked == ProbeExits(FALSE)

\* DOWN and CHECKING candidates alike go back to the tail of the queue
queue_after_retry(q, node, st) ==
    IF st = "UP" THEN Tail(q) ELSE Append(Tail(q), node)

\* a candidate that is still CHECKING is polled again at once
queue_after_front(q, node, st) ==
    IF st = "CHECKING" THEN <<node>> \o Tail(q) ELSE Tail(q)

\* the work queue after the match on the polled status: DOWN and UP leave it,
\* CHECKING goes to its tail
queue_after(q, node, st) ==
    IF st = "CHECKING" THEN Append(Tail(q), node) ELSE Tail(q)

\* an accepted node goes to the front of the list
accepted_after_front(ns, node, st) ==
    IF st = "UP" THEN <<node>> \o ns ELSE ns

\* Cluster.nodes after the match: an UP node is appended
accepted_after(ns, node, st) ==
    IF st = "UP" THEN Append(ns, node) ELSE ns

\* the body of the while loop for the popped node, whose poll returned r
\* the body of the while loop for the popped node, whose poll returned r and
\* is the count-th poll of the node by the loop
IterateCounting(node, r, count) ==
    /\ Poll("init_nodes", node, r)
    /\ polls' = [polls EXCEPT ![node] = count]
    /\ IF r.raised
       THEN /\ pc' = "crashed"
            /\ nodes_to_check' = Tail(nodes_to_check)
            /\ UNCHANGED nodes
       ELSE /\ pc' = pc
            /\ nodes_to_check' = queue_after(nodes_to_check, node, r.status)
            /\ nodes' = accepted_after(nodes, node, r.status)

Iterate(node, r) == IterateCounting(node, r, polls[node] + 1)

\* one iteration of the while loop of Cluster.__init_nodes
InitNodesStep ==
    /\ pc = "init_nodes"
    /\ Len(nodes_to_check) > 0 /\ Len(nodes) # nnodes
    /\ polls[Head(nodes_to_check)] < MaxSweeps
    /\ Iterate(Head(nodes_to_check), PollResult(Head(nodes_to_check)))
    /\ UNCHANGED <<hints, ntasks, nnodes, ntasks_per_node, built, ai, upd>>
    /\ UNCHANGED <<status_process, probe, env_vars, rank>>

\* one iteration of the while loop, however often the node has been polled;
\* polls are counted up to MaxSweeps
InitNodesLoop ==
    /\ pc = "init_nodes"
    /\ Len(nodes_to_check) > 0 /\ Len(nodes) # nnodes
    /\ IterateCounting(Head(nodes_to_check), PollResult(Head(nodes_to_check)),
                       IF polls[Head(nodes_to_check)] < MaxSweeps
                       THEN polls[Head(nodes_to_check)] + 1 ELSE MaxSweeps)
    /\ UNCHANGED <<hints, ntasks, nnodes, ntasks_per_node, built, ai, upd>>
    /\ UNCHANGED <<status_process, probe, env_vars, rank>>

Accepted == { nodes[k] : k \in 1..Len(nodes) }

\* Cluster.__init_nodes after the loop. Its work queue ends with it; the
\* candidates it did not accept are referenced by nothing the Cluster uses and
\* leave the state, and so does the history of the acquisition
InitNodesEnd ==
    /\ pc = "init_nodes"
    /\ ~(Len(nodes_to_check) > 0 /\ Len(nodes) # nnodes)
    /\ pc' = IF Len(nodes) < nnodes THEN "too_few_nodes" ELSE "assign"
    /\ ai' = [node_id |-> 0, local_id |-> 0]
    /\ nodes_to_check' = <<>>
    /\ status' = [n \in Cand |-> IF n \in Accepted THEN status[n] ELSE "NONE"]
    /\ nproc' = [n \in Cand |-> IF n \in Accepted THEN nproc[n] ELSE 0]
    /\ status_process' = [n \in Cand |-> n \in Accepted /\ status_process[n]]
    /\ probe' = [n \in Cand |-> IF n \in Accepted THEN probe[n] ELSE NoProbe]
    /\ last' = NoPoll("init_nodes_end")
    /\ rank' = [n \in Cand |-> 0]
    /\ polls' = [n \in Cand |-> 0]
    /\ UNCHANGED <<hints, ntasks, nnodes, ntasks_per_node, built, nodes, upd>>
    /\ UNCHANGED <<tasks, env_vars, seen>>

\* the task is launched and appended as the factory made it
assign_task_unmarked(ts, task) == Append(ts, task)

\* Node.assign_task: the task is marked RUNNING_EARLY, launched and appended
assign_task(ts, task) == Append(ts, [task EXCEPT !.status = "RUNNING_EARLY"])

\* the rank is computed from the number of nodes
rank_of_by_nodes(node_id, local_id, per_node, n_nodes) == node_id * n_nodes + local_id

\* proc_id = node_id * self.ntasks_per_node + local_id
rank_of(node_id, local_id, per_node, n_nodes) == node_id * per_node + local_id

\* the slot (node_id, local_id) goes to selected_node as proc_id; the stale
\* output file is unlinked
Dispatch(node_id, local_id, selected_node, proc_id) ==
    /\ files' = [files EXCEPT ![proc_id] = NoFile]
    /\ tasks' = [tasks EXCEPT ![selected_node] =
                    assign_task(@, NewTask(nproc[selected_node], local_id, node_id, proc_id))]
    /\ IF local_id + 1 < ntasks_per_node
       THEN /\ ai' = [node_id |-> node_id, local_id |-> local_id + 1]
            /\ UNCHANGED <<pc, upd>>
       ELSE IF node_id + 1 < nnodes
       THEN /\ ai' = [node_id |-> node_id + 1, local_id |-> 0]
            /\ UNCHANGED <<pc, upd>>
       ELSE /\ pc' = "running"
            /\ upd' = 1
            /\ UNCHANGED ai

\* one iteration of the inner loop of Cluster.__assign_tasks_to_nodes
AssignTask ==
    /\ pc = "assign"
    /\ Dispatch(ai.node_id, ai.local_id, nodes[ai.node_id + 1],
                rank_of(ai.node_id, ai.local_id, ntasks_per_node, nnodes))
    /\ last' = NoPoll("assign_task")
    /\ UNCHANGED <<hints, ntasks, nnodes, ntasks_per_node, built, nodes, nodes_to_check>>
    /\ UNCHANGED <<status, nproc, status_process, probe, clock, env_left, seen, rank, polls>>

Visit(node, r) ==
    /\ Poll("update", node, r)
    /\ pc' = IF r.raised THEN "crashed" ELSE pc

\* one iteration of the loop of Cluster.update_node_statuses
UpdateStep ==
    /\ pc = "running"
    /\ Visit(nodes[upd], PollResult(nodes[upd]))
    /\ upd' = (upd % Len(nodes)) + 1
    /\ UNCHANGED <<hints, ntasks, nnodes, ntasks_per_node, built, nodes, nodes_to_check, ai>>
    /\ UNCHANGED <<status_process, probe, env_vars, rank, polls>>

\* the remote shell creates the output file of a launched task
FileCreate ==
    /\ env_left > 0
    /\ \E p \in ProcIds :
         /\ Dispatched(p)
         /\ ~files[p].exists
         /\ files' = [files EXCEPT ![p] = [exists |-> TRUE, mtime |-> clock,
                                           content |-> <<>>, writes |-> 0]]
    /\ env_left' = env_left - 1
    /\ last' = NoPoll("file_create")
    /\ UNCHANGED <<cluster_vars, node_vars, clock, seen, rank, polls>>

\* a running task appends to its output file
FileAppend ==
    /\ env_left > 0
    /\ \E p \in ProcIds :
         /\ files[p].exists
         /\ files[p].writes < MaxWrites
         /\ \E c \in Chunks :
              files' = [files EXCEPT ![p] = [exists |-> TRUE, mtime |-> clock,
                                             content |-> @.content \o c,
                                             writes |-> @.writes + 1]]
    /\ env_left' = env_left - 1
    /\ last' = NoPoll("file_append")
    /\ UNCHANGED <<cluster_vars, node_vars, clock, seen, rank, polls>>

\* the output file of a task is removed on the shared file system
FileRemove ==
    /\ env_left > 0
    /\ \E p \in ProcIds :
         /\ files[p].exists
         /\ files' = [files EXCEPT ![p] = NoFile]
    /\ env_left' = env_left - 1
    /\ last' = NoPoll("file_remove")
    /\ UNCHANGED <<cluster_vars, node_vars, clock, seen, rank, polls>>

\* time passes
Tick ==
    /\ env_left > 0
    /\ \E p \in ProcIds : Dispatched(p)
    /\ \E d \in TickSteps : clock' = clock + d
    /\ env_left' = env_left - 1
    /\ last' = NoPoll("tick")
    /\ UNCHANGED <<cluster_vars, node_vars, files, seen, rank, polls>>

\* --------------------------------------------------------- specifications
Fresh(h, budget) ==
    /\ pc = "params"
    /\ hints = h
    /\ ntasks = 0
    /\ nnodes = 0
    /\ ntasks_per_node = 0
    /\ built = 0
    /\ status = [n \in Cand |-> "NONE"]
    /\ nproc = [n \in Cand |-> 0]
    /\ status_process = [n \in Cand |-> FALSE]
    /\ probe = [n \in Cand |-> NoProbe]
    /\ tasks = [n \in Cand |-> <<>>]
    /\ nodes = <<>>
    /\ nodes_to_check = <<>>
    /\ ai = [node_id |-> 0, local_id |-> 0]
    /\ upd = 0
    /\ files = [p \in ProcIds |-> NoFile]
    /\ clock = StartTime * Resolution
    /\ env_left = budget
    /\ last = NoPoll("start")
    /\ seen = [p \in ProcIds |-> 0 - 1]
    /\ rank = [n \in Cand |-> 0]
    /\ polls = [n \in Cand |-> 0]

\* capacity planning alone, over every combination of hints
InitParams ==
    \E h \in [ntasks : Hints, nnodes : Hints, ntasks_per_node : Hints] : Fresh(h, 0)

NextParams == SetParams

SpecParams == InitParams /\ [][NextParams]_vars

\* a Cluster built from a roster of NCand entries, then polled by its caller
Fits(h) ==
    LET r == set_params(h.ntasks, h.nnodes, h.ntasks_per_node)
    IN  r.ok => r.nnodes * r.ntasks_per_node <= MaxSlots

\* every hint is absent or MaxPlan
PlanHints == {0, MaxPlan}

Init ==
    \E h \in [ntasks : PlanHints, nnodes : PlanHints, ntasks_per_node : PlanHints] :
        Fits(h) /\ Fresh(h, EnvSteps)

Next ==
    \/ SetParams
    \/ NodeInit
    \/ ProbeExit
    \/ InitNodesStep
    \/ InitNodesEnd
    \/ AssignTask
    \/ UpdateStep
    \/ FileCreate
    \/ FileAppend
    \/ Tick

Spec == Init /\ [][Next]_vars

\* the state Cluster.__init__ leaves behind when the first nn roster entries
\* answered 8 to their probe before they were polled: nn nodes, np tasks each
Built(nn, np, budget) ==
    /\ pc = "running"
    /\ hints = [ntasks |-> 0, nnodes |-> nn, ntasks_per_node |-> np]
    /\ ntasks = nn * np
    /\ nnodes = nn
    /\ ntasks_per_node = np
    /\ built = NCand
    /\ status = [n \in Cand |-> IF n <= nn THEN "UP" ELSE "NONE"]
    /\ nproc = [n \in Cand |-> IF n <= nn THEN IntOf(NprocOutput(n)) ELSE 0]
    /\ status_process = [n \in Cand |-> n <= nn]
    /\ probe = [n \in Cand |-> IF n <= nn THEN Exited(0, NprocOutput(n)) ELSE NoProbe]
    /\ tasks = [n \in Cand |->
                  IF n <= nn
                  THEN [k \in 1..np |->
                          assign_task(<<>>, NewTask(IntOf(NprocOutput(n)), k - 1, n - 1,
                                                   (n - 1) * np + k - 1))[1]]
                  ELSE <<>>]
    /\ nodes = [k \in 1..nn |-> k]
    /\ nodes_to_check = <<>>
    /\ ai = [node_id |-> nn - 1, local_id |-> np - 1]
    /\ upd = 1
    /\ files = [p \in ProcIds |-> NoFile]
    /\ clock = StartTime * Resolution
    /\ env_left = budget
    /\ last = NoPoll("assign_task")
    /\ seen = [p \in ProcIds |-> 0 - 1]
    /\ rank = [n \in Cand |-> 0]
    /\ polls = [n \in Cand |-> 0]

\* one node with one task, polled while the task writes and time passes
InitTask == Built(1, 1, EnvStepsTask)

NextTask ==
    \/ UpdateStep
    \/ FileCreate
    \/ FileAppend
    \/ Tick

SpecTask == InitTask /\ [][NextTask]_vars

\* what a snapshot document holds of a task, and what its output file holds
\* when the snapshot is restored: not started then and now, started since,
\* running with nothing new, finished since, finished then
SnapKinds == {"early", "early_started", "running", "running_done", "finished"}
SnapTask(kind, local_id, node_id, proc_id) ==
    [NewTask(8, local_id, node_id, proc_id) EXCEPT
        !.status   = CASE kind \in {"early", "early_started"} -> "RUNNING_EARLY"
                       [] kind \in {"running", "running_done"} -> "RUNNING"
                       [] kind = "finished" -> "FINISHED",
        !.progress = CASE kind \in {"early", "early_started"} -> 0
                       [] kind \in {"running", "running_done"} -> 1
                       [] kind = "finished" -> 2,
        !.total    = IF kind \in {"early", "early_started"} THEN 0 ELSE 2]
SnapFile(kind) ==
    CASE kind = "early" -> NoFile
      [] kind \in {"early_started", "running"} ->
            [exists |-> TRUE, mtime |-> StartTime * Resolution,
             content |-> Marker(<<"1">>, <<"2">>), writes |-> 1]
      [] kind = "running_done" ->
            [exists |-> TRUE, mtime |-> StartTime * Resolution,
             content |-> Marker(<<"1">>, <<"2">>) \o Marker(<<"2">>, <<"2">>), writes |-> 2]
      [] kind = "finished" ->
            [exists |-> TRUE, mtime |-> StartTime * Resolution,
             content |-> Marker(<<"2">>, <<"2">>), writes |-> 1]

\* Cluster.from_dict on the snapshot of a cluster of nn nodes with np tasks
\* each, task p being of kind[p]: Node.from_dict constructs every node anew
\* around its tasks (CHECKING, nproc 0, a new probe in flight when polled),
\* then Cluster.__init__ plans from the stored triple and takes restore_nodes
\* as its nodes, acquiring and dispatching nothing
Restored(nn, np, kind, budget) ==
    /\ pc = "running"
    /\ hints = [ntasks |-> nn * np, nnodes |-> nn, ntasks_per_node |-> np]
    /\ ntasks = set_params(nn * np, nn, np).ntasks
    /\ nnodes = set_params(nn * np, nn, np).nnodes
    /\ ntasks_per_node = set_params(nn * np, nn, np).ntasks_per_node
    /\ built = nn
    /\ status = [n \in Cand |-> IF n <= nn THEN "CHECKING" ELSE "NONE"]
    /\ nproc = [n \in Cand |-> 0]
    /\ status_process = [n \in Cand |-> n <= nn]
    /\ probe = [n \in Cand |-> IF n <= nn THEN InFlight ELSE NoProbe]
    /\ tasks = [n \in Cand |->
                  IF n <= nn
                  THEN [k \in 1..np |->
                          SnapTask(kind[(n - 1) * np + k - 1], k - 1, n - 1, (n - 1) * np + k - 1)]
                  ELSE <<>>]
    /\ nodes = [k \in 1..nn |-> k]
    /\ nodes_to_check = <<>>
    /\ ai = [node_id |-> 0, local_id |-> 0]
    /\ upd = 1
    /\ files = [p \in ProcIds |-> IF p < nn * np THEN SnapFile(kind[p]) ELSE NoFile]
    /\ clock = StartTime * Resolution
    /\ env_left = budget
    /\ last = NoPoll("from_dict")
    /\ seen = [p \in ProcIds |-> 0 - 1]
    /\ rank = [n \in Cand |-> 0]
    /\ polls = [n \in Cand |-> 0]

InitRestore ==
    \E nn \in 1..MaxPlan : \E np \in 1..MaxPlan :
        /\ nn * np <= MaxPlan
        /\ \E kind \in [0..(nn * np - 1) -> SnapKinds] : Restored(nn, np, kind, 0)

\* update passes over the restored nodes while their probes resolve
NextRestore ==
    \/ ProbeExit
    \/ UpdateStep

SpecRestore == InitRestore /\ [][NextRestore]_vars

\* Cluster.__init__ up to the end of __init_nodes, for every number of nodes
\* asked for. The constructor runs on
\* without waiting, and every probe is an ssh command with a ConnectTimeout,
\* so it exits in the end
InitAcquire ==
    \E nn \in 1..MaxPlan : Fresh([ntasks |-> 0, nnodes |-> nn, ntasks_per_node |-> 0], 0)

NextAcquire ==
    \/ SetParams
    \/ NodeInit
    \/ ProbeExitUnranked
    \/ InitNodesLoop
    \/ InitNodesEnd

SpecAcquire ==
    /\ InitAcquire
    /\ [][NextAcquire]_vars
    /\ WF_vars(SetParams)
    /\ WF_vars(NodeInit)
    /\ WF_vars(InitNodesLoop)
    /\ WF_vars(InitNodesEnd)
    /\ WF_vars(ProbeExitUnranked)

\* one node with its tasks, polled while output files appear, grow and are
\* removed
InitRemoval == Built(1, MaxPlan, EnvSteps + 1)

NextRemoval ==
    \/ UpdateStep
    \/ FileCreate
    \/ FileAppend
    \/ FileRemove

SpecRemoval == InitRemoval /\ [][NextRemoval]_vars

\* ------------------------------------------------------------- snapshots
\* TaskStatus is an IntEnum numbered by auto() in the order of its members
TaskStatusNames == <<"NOT_STARTED", "FINISHED", "RUNNING_EARLY", "RUNNING", "STALLED">>
\* task_dict['status'].value
TaskStatusValue(st) == CHOOSE v \in 1..Len(TaskStatusNames) : TaskStatusNames[v] = st

\* the ordinals are read as if the members were in lifecycle order
TaskStatusInLifecycleOrder(v) ==
    <<"NOT_STARTED", "RUNNING_EARLY", "RUNNING", "FINISHED", "STALLED">>[v]

\* TaskStatus(data['status'])
TaskStatusOf(v) == TaskStatusNames[v]

\* task_to_dict: asdict(task) with the status as its ordinal; the output file
\* path is that of the task's proc_id
task_to_dict(task) ==
    [status |-> TaskStatusValue(task.status), last_update |-> task.last_update,
     progress |-> task.progress, total |-> task.total, output_file |-> task.proc_id,
     config |-> [cpus_on_node |-> task.cpus_on_node, local_id |-> task.local_id,
                 node_id |-> task.node_id, proc_id |-> task.proc_id]]

\* Task.from_dict
Task_from_dict(data) ==
    [status |-> TaskStatusOf(data.status), last_update |-> data.last_update,
     progress |-> data.progress, total |-> data.total,
     cpus_on_node |-> data.config.cpus_on_node, local_id |-> data.config.local_id,
     node_id |-> data.config.node_id, proc_id |-> data.config.proc_id]

\* Node.to_dict of candidate n
Node_to_dict(n) ==
    [name |-> n, nproc |-> nproc[n], status_process |-> "None",
     tasks |-> [k \in 1..Len(tasks[n]) |-> task_to_dict(tasks[n][k])]]

\* Cluster.to_dict
Cluster_to_dict ==
    [restore_nodes |-> [k \in 1..Len(nodes) |-> Node_to_dict(nodes[k])],
     task_factory |-> "None",
     ntasks |-> ntasks, nnodes |-> nnodes, ntasks_per_node |-> ntasks_per_node]

TasksOf(data) == [k \in 1..Len(data.tasks) |-> Task_from_dict(data.tasks[k])]

\* the restored node takes nproc from the document, is UP and has no probe
Node_from_dict_trusting(data, pr) ==
    [node |-> Polled("UP", data.nproc, TasksOf(data), <<>>, FALSE),
     status_process |-> FALSE, probe |-> NoProbe]

\* Node.from_dict: cls(name, address, tasks) runs Node.__init__, which sets
\* nproc 0 and CHECKING, sends a new probe (pr when polled) and polls it
Node_from_dict(data, pr) ==
    [node |-> get_and_update_status("CHECKING", 0, pr, TasksOf(data), files, clock),
     status_process |-> TRUE, probe |-> pr]

Named(doc, n) == \E k \in 1..Len(doc.restore_nodes) : doc.restore_nodes[k].name = n
DocNode(doc, n) ==
    doc.restore_nodes[CHOOSE k \in 1..Len(doc.restore_nodes) : doc.restore_nodes[k].name = n]

\* the step that restored doc, and the cluster the document was taken of
RestoreOf(doc) ==
    [op |-> "from_dict", node |-> 0, pre_status |-> "-", pre_nproc |-> 0,
     pre_tasks |-> <<>>, pre_seen |-> <<>>, paths |-> <<>>, raised |-> FALSE,
     doc |-> doc,
     pre |-> [ntasks |-> ntasks, nnodes |-> nnodes, ntasks_per_node |-> ntasks_per_node,
              nodes |-> nodes, tasks |-> tasks, ai |-> ai]]

\* data['restore_nodes'] = [Node.from_dict(node) for node in ...], by name;
\* prs[n] is what the constructor's poll finds of the probe of node n
restore_nodes(doc, prs) ==
    [n \in {m \in Cand : Named(doc, m)} |-> Node_from_dict(DocNode(doc, n), prs[n])]

\* Cluster.__init__(**data) with restore_nodes rs: __set_params on the stored
\* triple (r), self.nodes = restore_nodes, no acquisition; task_factory is
\* None, so nothing is dispatched
Restore(doc, rs, r) ==
    /\ hints' = [ntasks |-> doc.ntasks, nnodes |-> doc.nnodes,
                 ntasks_per_node |-> doc.ntasks_per_node]
    /\ pc' = IF r.ok THEN "running" ELSE "config_error"
    /\ ntasks' = IF r.ok THEN r.ntasks ELSE ntasks
    /\ nnodes' = IF r.ok THEN r.nnodes ELSE nnodes
    /\ ntasks_per_node' = IF r.ok THEN r.ntasks_per_node ELSE ntasks_per_node
    /\ nodes' = [k \in 1..Len(doc.restore_nodes) |-> doc.restore_nodes[k].name]
    /\ status' = [n \in Cand |-> IF n \in DOMAIN rs THEN rs[n].node.status ELSE "NONE"]
    /\ nproc' = [n \in Cand |-> IF n \in DOMAIN rs THEN rs[n].node.nproc ELSE 0]
    /\ tasks' = [n \in Cand |-> IF n \in DOMAIN rs THEN rs[n].node.tasks ELSE <<>>]
    /\ status_process' = [n \in Cand |-> n \in DOMAIN rs /\ rs[n].status_process]
    /\ probe' = [n \in Cand |-> IF n \in DOMAIN rs THEN rs[n].probe ELSE NoProbe]
    /\ upd' = 1
    /\ nodes_to_check' = <<>>
    /\ last' = RestoreOf(doc)

\* Cluster.from_dict(c.to_dict()) of the running cluster c; the probe of each
\* new Node is in flight when its constructor polls it, or has exited already
FromDict ==
    /\ pc = "running"
    /\ last.op # "from_dict"
    /\ \E prs \in [Accepted -> {InFlight} \cup UNION { OutcomesOf(n) : n \in Accepted }] :
         /\ \A n \in Accepted : prs[n] \in {InFlight} \cup OutcomesOf(n)
         /\ Restore(Cluster_to_dict, restore_nodes(Cluster_to_dict, prs),
                    set_params(ntasks, nnodes, ntasks_per_node))
    /\ UNCHANGED <<built, ai, env_vars, seen, rank, polls>>

\* the lifecycle states a task of a running cluster is in, with its output
\* file: not started, running with its final marker not yet read, finished,
\* stalled
TaskKinds == {"early", "running_done", "finished", "stalled"}
KindTask(kind, local_id, node_id, proc_id) ==
    IF kind = "stalled"
    THEN [SnapTask("running", local_id, node_id, proc_id) EXCEPT !.status = "STALLED"]
    ELSE SnapTask(kind, local_id, node_id, proc_id)
KindFile(kind) == IF kind = "stalled" THEN SnapFile("running_done") ELSE SnapFile(kind)

\* a Cluster planned for nt tasks on nn UP nodes with np tasks each, task p
\* being of kind[p]
Running(nt, nn, np, kind, budget) ==
    /\ pc = "running"
    /\ hints = [ntasks |-> nt, nnodes |-> nn, ntasks_per_node |-> np]
    /\ ntasks = nt
    /\ nnodes = nn
    /\ ntasks_per_node = np
    /\ built = NCand
    /\ status = [n \in Cand |-> IF n <= nn THEN "UP" ELSE "NONE"]
    /\ nproc = [n \in Cand |-> IF n <= nn THEN IntOf(NprocOutput(n)) ELSE 0]
    /\ status_process = [n \in Cand |-> n <= nn]
    /\ probe = [n \in Cand |-> IF n <= nn THEN Exited(0, NprocOutput(n)) ELSE NoProbe]
    /\ tasks = [n \in Cand |->
                  IF n <= nn
                  THEN [k \in 1..np |->
                          KindTask(kind[(n - 1) * np + k - 1], k - 1, n - 1, (n - 1) * np + k - 1)]
                  ELSE <<>>]
    /\ nodes = [k \in 1..nn |-> k]
    /\ nodes_to_check = <<>>
    /\ ai = [node_id |-> nn - 1, local_id |-> np - 1]
    /\ upd = 1
    /\ files = [p \in ProcIds |-> IF p < nn * np THEN KindFile(kind[p]) ELSE NoFile]
    /\ clock = StartTime * Resolution
    /\ env_left = budget
    /\ last = NoPoll("assign_task")
    /\ seen = [p \in ProcIds |-> 0 - 1]
    /\ rank = [n \in Cand |-> 0]
    /\ polls = [n \in Cand |-> 0]

InitSnapshot ==
    \E nn \in 1..MaxPlan : \E np \in 1..MaxPlan :
        /\ nn * np <= MaxPlan
        /\ \E nt \in {Max({1, nn * np - 1})} : \E kind \in [0..(nn * np - 1) -> TaskKinds] :
               Running(nt, nn, np, kind, 0)

\* a running cluster is polled, saved and restored; what its tasks have
\* written since the last poll is in the files of the initial state
NextSnapshot ==
    \/ FromDict
    \/ ProbeExit
    \/ UpdateStep

SpecSnapshot == InitSnapshot /\ [][NextSnapshot]_vars

\* ------------------------------------------------------------ properties
\* the hints as the caller gave them
HasTasks   == hints.ntasks > 0
HasNodes   == hints.nnodes > 0
HasPerNode == hints.ntasks_per_node > 0
Inconsistent ==
    HasTasks /\ HasNodes /\ HasPerNode /\ hints.ntasks > hints.nnodes * hints.ntasks_per_node
Planning == pc \in {"build", "config_error"}

\* C10, as stated: __set_params fails with a configuration error exactly when
\* all three hints are absent or the triple is inconsistent, and accepts every
\* other combination, any single hint included
SetParamsRejectsAbsentOrInconsistent ==
    Planning =>
        (pc = "config_error" <=> ((~HasTasks /\ ~HasNodes /\ ~HasPerNode) \/ Inconsistent))

\* C10, amended: __set_params fails with a configuration error exactly when
\* neither ntasks nor nnodes is given (all three hints absent, or
\* ntasks_per_node alone) or the triple is inconsistent; it accepts the six
\* other combinations
SetParamsRejectsUnsizedOrInconsistent ==
    Planning =>
        (pc = "config_error" <=> ((~HasTasks /\ ~HasNodes) \/ Inconsistent))

\* ntasks_per_node alone was given and rejected
PerNodeAloneRejected ==
    pc = "config_error" /\ ~HasTasks /\ ~HasNodes /\ HasPerNode

\* what a probe that exited 0 printed, read as a count
PrintedCount(out) ==
    CASE out = <<"8">> -> 8
      [] out = <<"1", "2", "\n">> -> 12

\* the latest step polled a node that was CHECKING
PolledChecking == last.node # 0 /\ last.pre_status = "CHECKING"

\* C1: get_and_update_status on a CHECKING node leaves it CHECKING with nproc
\* unchanged while the probe is in flight, makes it DOWN when the probe exited
\* non-zero whatever it printed, and makes it UP with nproc the integer the
\* probe printed when it exited 0
CheckingFollowsProbe ==
    PolledChecking =>
        /\ probe[last.node].st = "flight" =>
              status[last.node] = "CHECKING" /\ nproc[last.node] = last.pre_nproc
        /\ (probe[last.node].st = "exited" /\ probe[last.node].rc # 0) =>
              status[last.node] = "DOWN"
        /\ (probe[last.node].st = "exited" /\ probe[last.node].rc = 0) =>
              /\ status[last.node] = "UP"
              /\ nproc[last.node] = PrintedCount(probe[last.node].out)

\* a poll found the probe exited 0 with "12\n" on its stdout, within the
\* acquisition loop after an earlier poll had found it in flight
CheckingSawTwelve ==
    /\ PolledChecking
    /\ last.op = "init_nodes"
    /\ probe[last.node] = Exited(0, <<"1", "2", "\n">>)
    /\ status[last.node] = "UP"
    /\ nproc[last.node] = 12

\* the latest step was a poll of node n
PollOfNode(n) == last.node = n

\* C2: node health only moves from CHECKING to UP or to DOWN. A DOWN node
\* keeps its status, nproc and tasks through every later step, and its polls
\* poll no task; an UP node stays UP with the same nproc, and each of its
\* polls polls every task it owns
HealthMonotone ==
    [][\A n \in Cand :
          /\ status'[n] # status[n] =>
                status[n] = "CHECKING" /\ status'[n] \in {"UP", "DOWN"}
          /\ status[n] = "DOWN" =>
                /\ nproc'[n] = nproc[n]
                /\ tasks'[n] = tasks[n]
                /\ PollOfNode(n)' => last'.paths = <<>>
          /\ status[n] = "UP" =>
                /\ nproc'[n] = nproc[n]
                /\ PollOfNode(n)' =>
                      /\ Len(last'.paths) = Len(tasks[n])
                      /\ \A k \in 1..Len(tasks[n]) :
                            tasks'[n][k] =
                                update_task(tasks[n][k], files[tasks[n][k].proc_id], clock).task
    ]_vars

\* an update pass polled a restored node that is DOWN and owns a RUNNING task
\* whose output file has since got its final marker, while another restored
\* node, UP, has seen its own task through to FINISHED
DownPolledBesideUp ==
    /\ last.op = "update"
    /\ last.pre_status = "DOWN"
    /\ status[last.node] = "DOWN"
    /\ \E k \in 1..Len(tasks[last.node]) :
          /\ tasks[last.node][k].status = "RUNNING"
          /\ files[tasks[last.node][k].proc_id].writes = 2
    /\ \E m \in Cand \ {last.node} :
          /\ status[m] = "UP"
          /\ nproc[m] = 12
          /\ \E k \in 1..Len(tasks[m]) :
                /\ tasks[m][k].status = "FINISHED"
                /\ files[tasks[m][k].proc_id].writes = 2

\* c[i..k] is a progress marker: STX, digits, a slash at j, digits, ETX
MarkerSpan(c, i, j, k) ==
    /\ c[i] = STX /\ c[j] = "/" /\ c[k] = ETX
    /\ i + 1 < j /\ j + 1 < k
    /\ \A x \in (i + 1)..(j - 1) : IsDigit(c[x])
    /\ \A x \in (j + 1)..(k - 1) : IsDigit(c[x])
MarkerStarts(c) ==
    { i \in 1..Len(c) : \E j \in (i + 2)..Len(c) : \E k \in (j + 2)..Len(c) :
                            MarkerSpan(c, i, j, k) }
SlashOf(c, i) ==
    CHOOSE j \in (i + 2)..Len(c) : \E k \in (j + 2)..Len(c) : MarkerSpan(c, i, j, k)
EndOf(c, i) ==
    CHOOSE k \in (SlashOf(c, i) + 2)..Len(c) : MarkerSpan(c, i, SlashOf(c, i), k)
CurrentAt(c, i) == Decimal(SubSeq(c, i + 1, SlashOf(c, i) - 1))
TotalAt(c, i)   == Decimal(SubSeq(c, SlashOf(c, i) + 1, EndOf(c, i) - 1))

\* what a read of content c leaves of a task that was pre
ReadLeaves(pre, post, c, i) ==
    IF MarkerStarts(c) = {}
    THEN post = [pre EXCEPT !.status = "RUNNING"]
    ELSE /\ post.progress = CurrentAt(c, i)
         /\ post.total = TotalAt(c, i)
         /\ post.status = IF CurrentAt(c, i) = TotalAt(c, i) THEN "FINISHED" ELSE "RUNNING"
         /\ post.last_update = pre.last_update

\* the latest step polled node last.node and, for its k-th task, read the file
ReadTask(k) == last.node # 0 /\ k \in 1..Len(last.paths) /\ last.paths[k] \in ReadPaths

\* C3: when a poll of a RUNNING task reads the output file, progress and total
\* become the pair of the last marker of the whole file, whatever precedes it,
\* and the task is FINISHED exactly if that pair is equal; with no marker in
\* the file the task stays RUNNING with progress and total unchanged
LastMarkerCounts ==
    \A k \in 1..Len(last.paths) :
        ReadTask(k) =>
            ReadLeaves(last.pre_tasks[k], tasks[last.node][k],
                       files[last.pre_tasks[k].proc_id].content,
                       Max(MarkerStarts(files[last.pre_tasks[k].proc_id].content) \cup {0}))

\* a poll read a file holding noise with two STX, then 1/2, then 10/10, and
\* left the task FINISHED at 10 of 10
NoiseThenTwoMarkersRead ==
    /\ ReadTask(1)
    /\ files[0].content =
          <<STX, "x", STX>> \o Marker(<<"1">>, <<"2">>) \o Marker(<<"1", "0">>, <<"1", "0">>)
    /\ tasks[last.node][1].status = "FINISHED"
    /\ tasks[last.node][1].progress = 10
    /\ tasks[last.node][1].total = 10

Terminal == {"FINISHED", "STALLED"}

\* C4: once a task is FINISHED or STALLED no step changes its status,
\* progress, total or last_update, and a poll of its node takes the no-op
\* branch for it, which neither stats nor reads the output file, whatever the
\* file holds by then
TerminalTasksFrozen ==
    [][\A n \in Cand : \A k \in 1..Len(tasks[n]) :
          tasks[n][k].status \in Terminal =>
              /\ tasks'[n][k] = tasks[n][k]
              /\ PollOfNode(n)' =>
                    /\ last'.paths[k] = "terminal"
                    /\ last'.paths[k] \notin StatPaths \cup ReadPaths
    ]_vars

\* a task that finished at 2/2 was polled again after its file got a later
\* marker 1/2, and is still FINISHED at 2 of 2
FinishedPolledAfterWrite ==
    /\ last.op = "update"
    /\ Len(last.pre_tasks) = 1
    /\ last.pre_tasks[1].status = "FINISHED"
    /\ last.paths = <<"terminal">>
    /\ files[0].content = Marker(<<"2">>, <<"2">>) \o Marker(<<"1">>, <<"2">>)
    /\ tasks[last.node][1].status = "FINISHED"
    /\ tasks[last.node][1].progress = 2
    /\ tasks[last.node][1].total = 2

\* the latest step polled node last.node and, for its k-th task, called stat
StatTask(k) ==
    last.node # 0 /\ k \in 1..Len(last.paths) /\ last.paths[k] \in StatPaths \ {"raise"}
StalledBy(k) == tasks[last.node][k].status = "STALLED"
\* now - mtime, and now - int(mtime), in ticks
Age(p)          == clock - files[p].mtime
AgeTruncated(p) == clock - (files[p].mtime \div Resolution) * Resolution
STALL_TIMEOUT_TICKS == Resolution * FILE_MODIFICATION_TIMEOUT

\* C5, as stated: a poll of a RUNNING task marks it STALLED exactly when
\* now - mtime > STALL_TIMEOUT, so not at the boundary now - mtime = STALL_TIMEOUT
StalledWhenStrictlyOlder ==
    \A k \in 1..Len(last.paths) :
        StatTask(k) => (StalledBy(k) <=> Age(last.pre_tasks[k].proc_id) > STALL_TIMEOUT_TICKS)

\* C5, amended: a poll of a RUNNING task marks it STALLED exactly when
\* now - int(mtime) >= STALL_TIMEOUT, int(mtime) being the modification time
\* cut to whole seconds: the boundary stalls, and a file modified within a
\* second stalls up to one second before it is STALL_TIMEOUT old
StalledWhenTruncatedAgeReaches ==
    \A k \in 1..Len(last.paths) :
        StatTask(k) =>
            (StalledBy(k) <=> AgeTruncated(last.pre_tasks[k].proc_id) >= STALL_TIMEOUT_TICKS)

\* a poll marked a task STALLED whose file was exactly STALL_TIMEOUT old
StalledAtBoundary ==
    /\ StatTask(1)
    /\ last.pre_tasks[1].status = "RUNNING"
    /\ StalledBy(1)
    /\ Age(last.pre_tasks[1].proc_id) = STALL_TIMEOUT_TICKS

\* int(mtime) of the output file of the k-th task the latest poll polled
MtimeOf(k) == files[last.pre_tasks[k].proc_id].mtime \div Resolution
\* the k-th task was RUNNING and not stale, and the previous stat of its file
\* saw the modification time this poll saw
UnchangedSincePreviousPoll(k) ==
    /\ StatTask(k)
    /\ last.pre_tasks[k].status = "RUNNING"
    /\ ~StalledBy(k)
    /\ last.pre_seen[k] = MtimeOf(k)

\* C6: last_update records the modification time a poll last observed, and a
\* poll of a RUNNING task that is not stale and whose file has the modification
\* time the previous poll observed is a no-op: it does not read the file and
\* leaves status, progress, total and last_update as they were
UnchangedMtimeSkipsRead ==
    \A k \in 1..Len(last.paths) :
        /\ (StatTask(k) /\ ~StalledBy(k)) => tasks[last.node][k].last_update = MtimeOf(k)
        /\ UnchangedSincePreviousPoll(k) =>
              /\ last.paths[k] \notin ReadPaths
              /\ tasks[last.node][k] = last.pre_tasks[k]

\* a poll read a file again whose modification time the previous poll had
\* already seen, last_update still being 0
UnchangedFileReadAgain ==
    /\ UnchangedSincePreviousPoll(1)
    /\ last.paths[1] \in ReadPaths
    /\ tasks[last.node][1].last_update = 0
    /\ MtimeOf(1) > 0

\* the while loop of __init_nodes has ended and the length test is next
LoopDone == pc = "init_nodes" /\ ~(Len(nodes_to_check) > 0 /\ Len(nodes) # nnodes)
ExitedZero == { n \in Cand : probe[n].st = "exited" /\ probe[n].rc = 0 }
Queued == { nodes_to_check[k] : k \in 1..Len(nodes_to_check) }
DistinctNodes == \A k, l \in 1..Len(nodes) : nodes[k] = nodes[l] => k = l

\* C7: acquisition fails with the insufficient-nodes error exactly when fewer
\* than nnodes candidates have a probe that exits zero; otherwise it ends with
\* len(nodes) = nnodes, every accepted node UP and a distinct candidate; a DOWN
\* candidate is never accepted, and once dropped it is neither queued nor
\* polled again
AcquisitionSound ==
    /\ LoopDone => (Len(nodes) < nnodes <=> Cardinality(ExitedZero) < nnodes)
    /\ pc = "too_few_nodes" => Len(nodes) < nnodes
    /\ (LoopDone /\ ~(Len(nodes) < nnodes)) \/ pc \in {"assign", "running"} =>
          /\ Len(nodes) = nnodes
          /\ \A k \in 1..Len(nodes) : status[nodes[k]] = "UP"
          /\ DistinctNodes
    /\ pc = "init_nodes" =>
          \A n \in Cand :
              status[n] = "DOWN" =>
                  /\ n \notin Accepted
                  /\ polls[n] > 0 => n \notin Queued
    /\ (last.op = "init_nodes" /\ last.pre_status = "DOWN") => polls[last.node] = 1
    /\ last.op = "update" => last.pre_status = "UP"

\* the loop ended with two nodes accepted out of three candidates, the third
\* having been found DOWN by the loop and dropped at its first poll
TwoAcceptedOneDropped ==
    /\ LoopDone
    /\ nnodes = 2 /\ Len(nodes) = 2
    /\ \E n \in Cand :
          /\ status[n] = "DOWN" /\ polls[n] = 1
          /\ n \notin Accepted /\ n \notin Queued

Acquiring == pc = "init_nodes"

\* C8, as stated: the accepted nodes are in probe-resolution order, a node
\* whose probe exited earlier preceding one whose probe exited later, and
\* nodes whose probes exited at the same time being in original queue order
AcceptedInResolutionOrder ==
    Acquiring =>
        \A k, l \in 1..Len(nodes) :
            k < l => \/ rank[nodes[k]] < rank[nodes[l]]
                     \/ rank[nodes[k]] = rank[nodes[l]] /\ nodes[k] < nodes[l]

\* C8, amended: the accepted nodes are in the order in which the polls of the
\* loop found them UP: a node found UP on an earlier pass over the queue
\* precedes one found UP on a later pass, and nodes found UP on the same pass
\* are in original queue order, whenever their probes exited
AcceptedInPollOrder ==
    Acquiring =>
        \A k, l \in 1..Len(nodes) :
            k < l => \/ polls[nodes[k]] < polls[nodes[l]]
                     \/ polls[nodes[k]] = polls[nodes[l]] /\ nodes[k] < nodes[l]

\* candidate 2 was accepted before candidate 1 although the probe of
\* candidate 1 exited first: it exited after the first poll of candidate 1
AcceptedOutOfResolutionOrder ==
    /\ Acquiring
    /\ Len(nodes) >= 2
    /\ nodes[1] = 2 /\ nodes[2] = 1
    /\ rank[1] < rank[2]
    /\ polls[2] = 1 /\ polls[1] = 2

AllTasks == { <<n, k>> \in Cand \X (1..MaxSlots) : k <= Len(tasks[n]) }
TaskAt(nk) == tasks[nk[1]][nk[2]]

\* C9: once dispatch is complete, and after any number of update passes,
\* every task has proc_id = node_id * ntasks_per_node + local_id and is owned
\* by Cluster.nodes[node_id] alone, and the proc_ids of all tasks are exactly
\* 0 .. nnodes * ntasks_per_node - 1 without duplicates
RanksRowMajor ==
    pc = "running" =>
        /\ \A nk \in AllTasks :
              /\ TaskAt(nk).proc_id = TaskAt(nk).node_id * ntasks_per_node + TaskAt(nk).local_id
              /\ TaskAt(nk).node_id \in 0..(Len(nodes) - 1)
              /\ nodes[TaskAt(nk).node_id + 1] = nk[1]
              /\ TaskAt(nk).local_id \in 0..(ntasks_per_node - 1)
        /\ { TaskAt(nk).proc_id : nk \in AllTasks } = 0..(nnodes * ntasks_per_node - 1)
        /\ \A a, b \in AllTasks : TaskAt(a).proc_id = TaskAt(b).proc_id => a = b

\* two nodes with two tasks each were dispatched to, and an update pass has
\* since seen a task of the second node start
FourRanksAfterUpdate ==
    /\ pc = "running"
    /\ nnodes = 2 /\ ntasks_per_node = 2
    /\ last.op = "update"
    /\ \E k \in 1..Len(tasks[nodes[2]]) : tasks[nodes[2]][k].status = "RUNNING"

PlanAccepted == pc = "build"

\* C11: for every combination of hints that __set_params accepts, the derived
\* ntasks, nnodes and ntasks_per_node are positive and ntasks <= nnodes *
\* ntasks_per_node; ntasks alone gives ntasks_per_node = 4 and the fewest
\* nodes that hold ntasks; and when ntasks is not supplied equality holds:
\* nnodes alone gives ntasks = nnodes and ntasks_per_node = 1, nnodes with
\* ntasks_per_node gives ntasks = nnodes * ntasks_per_node
PlanHoldsTasks ==
    PlanAccepted =>
        /\ ntasks > 0 /\ nnodes > 0 /\ ntasks_per_node > 0
        /\ ntasks <= nnodes * ntasks_per_node
        /\ (HasTasks /\ ~HasNodes /\ ~HasPerNode) =>
              /\ ntasks = hints.ntasks /\ ntasks_per_node = 4
              /\ (nnodes - 1) * 4 < ntasks
        /\ ~HasTasks => ntasks = nnodes * ntasks_per_node
        /\ (~HasTasks /\ ~HasPerNode) => (ntasks = hints.nnodes /\ ntasks_per_node = 1)
        /\ (~HasTasks /\ HasPerNode) =>
              (nnodes = hints.nnodes /\ ntasks_per_node = hints.ntasks_per_node)

\* ntasks = 5 alone was planned as 2 nodes with 4 tasks each
FiveTasksOnTwoNodes ==
    /\ PlanAccepted
    /\ hints.ntasks = 5 /\ ~HasNodes /\ ~HasPerNode
    /\ ntasks = 5 /\ nnodes = 2 /\ ntasks_per_node = 4

AllSupplied == HasTasks /\ HasNodes /\ HasPerNode

\* C12, as stated: when all three hints are supplied and accepted the
\* attributes satisfy ntasks = nnodes * ntasks_per_node
SuppliedTripleFillsGrid ==
    (PlanAccepted /\ AllSupplied) => ntasks = nnodes * ntasks_per_node

\* C12, amended: when all three hints are supplied and accepted the attributes
\* are the supplied values as they are, and they satisfy ntasks <= nnodes *
\* ntasks_per_node, with equality only if the caller supplied it so
SuppliedTripleKept ==
    (PlanAccepted /\ AllSupplied) =>
        /\ ntasks = hints.ntasks
        /\ nnodes = hints.nnodes
        /\ ntasks_per_node = hints.ntasks_per_node
        /\ ntasks <= nnodes * ntasks_per_node

\* one task was accepted for a grid of 2 nodes with 3 tasks each
TripleWithSpareSlots ==
    /\ PlanAccepted
    /\ hints = [ntasks |-> 1, nnodes |-> 2, ntasks_per_node |-> 3]
    /\ ntasks = 1 /\ nnodes * ntasks_per_node = 6

\* the Node objects that exist
Live == { n \in Cand : status[n] \in {"CHECKING", "UP", "DOWN"} }

\* C13, as stated: in every state of every Node the probe handle
\* status_process is present exactly if the node is CHECKING, so a node that
\* has become UP or DOWN holds no handle
HandleOnlyWhileChecking ==
    \A n \in Live : status_process[n] <=> status[n] = "CHECKING"

\* C13, amended: in every state of every Node the probe handle status_process
\* is present whatever the status: the constructor sets it and nothing clears
\* it, so a node that has become UP or DOWN still holds the handle of its
\* exited probe
HandleAlwaysHeld ==
    \A n \in Live :
        /\ status_process[n]
        /\ probe[n] # NoProbe
        /\ status[n] \in {"UP", "DOWN"} => probe[n].st = "exited"

\* the acquisition loop has polled one node UP and another DOWN, and both
\* still hold their handles
ResolvedNodesHoldHandles ==
    /\ pc = "init_nodes"
    /\ \E n, m \in Live :
          /\ status[n] = "UP" /\ polls[n] > 0 /\ status_process[n]
          /\ status[m] = "DOWN" /\ polls[m] > 0 /\ status_process[m]
\* the latest step restored a snapshot document of the running cluster
RestoredNow == last.op = "from_dict"

\* C14: Cluster.from_dict(Cluster.to_dict(c)) of a cluster c whose nodes are UP
\* has the ntasks, nnodes and ntasks_per_node of c, the nodes of c in the same
\* order, and for every task of every node, in the same order, the status,
\* progress, total, last_update and assignment descriptor the task has in c;
\* no task is dispatched by the restore
RoundTripKeepsClusterAndTasks ==
    RestoredNow =>
        /\ pc = "running"
        /\ ntasks = last.pre.ntasks
        /\ nnodes = last.pre.nnodes
        /\ ntasks_per_node = last.pre.ntasks_per_node
        /\ nodes = last.pre.nodes
        /\ ai = last.pre.ai
        /\ \A n \in Cand :
              /\ Len(tasks[n]) = Len(last.pre.tasks[n])
              /\ \A k \in 1..Len(tasks[n]) :
                    /\ tasks[n][k].status = last.pre.tasks[n][k].status
                    /\ tasks[n][k].progress = last.pre.tasks[n][k].progress
                    /\ tasks[n][k].total = last.pre.tasks[n][k].total
                    /\ tasks[n][k].last_update = last.pre.tasks[n][k].last_update
                    /\ tasks[n][k].cpus_on_node = last.pre.tasks[n][k].cpus_on_node
                    /\ tasks[n][k].local_id = last.pre.tasks[n][k].local_id
                    /\ tasks[n][k].node_id = last.pre.tasks[n][k].node_id
                    /\ tasks[n][k].proc_id = last.pre.tasks[n][k].proc_id

\* a cluster of two nodes was restored from a document that holds a FINISHED
\* task as ordinal 2 and a RUNNING task as ordinal 4, after an update pass had
\* read the output file of the first task
FinishedAndRunningRestored ==
    /\ RestoredNow
    /\ Len(nodes) = 2
    /\ last.doc.restore_nodes[1].tasks[1].status = 2
    /\ last.doc.restore_nodes[2].tasks[1].status = 4
    /\ last.doc.restore_nodes[2].tasks[1].progress = 1
    /\ seen[0] >= 0
    /\ tasks[1][1].status = "FINISHED"
    /\ tasks[2][1].status = "RUNNING"
\* C15 as stated: after a restore no restored node has a probe handle, and
\* the restore issued no probe
RestoredNodesHoldNoHandle ==
    RestoredNow => \A n \in Accepted : ~status_process[n] /\ probe[n] = NoProbe

\* C15: after a restore every restored node holds the handle of a probe the
\* restore issued for it, whatever the document stored under status_process;
\* the probe is in flight or has exited, and a node whose probe is in flight
\* is CHECKING
RestoredNodesHoldNewProbe ==
    RestoredNow =>
        \A n \in Accepted :
            /\ DocNode(last.doc, n).status_process = "None"
            /\ status_process[n]
            /\ probe[n] \in {InFlight} \cup OutcomesOf(n)
            /\ probe[n] = InFlight => status[n] = "CHECKING"

\* two nodes were restored from a document of two UP nodes, and the probe of
\* each is in flight
TwoProbesInFlightAfterRestore ==
    /\ RestoredNow
    /\ Len(nodes) = 2
    /\ \A k \in 1..2 : last.doc.restore_nodes[k].nproc > 0
    /\ \A n \in Accepted : status_process[n] /\ probe[n] = InFlight
\* the latest step was an update poll whose task k was RUNNING before the
\* poll and had no output file to stat
PolledWithoutFile(k) ==
    /\ last.op = "update"
    /\ k \in 1..Len(last.pre_tasks)
    /\ last.pre_tasks[k].status = "RUNNING"
    /\ ~files[last.pre_tasks[k].proc_id].exists
    /\ \A j \in 1..(k - 1) : last.pre_tasks[j].status # "RUNNING"

\* C16 as stated: a poll of a RUNNING task whose output file cannot be
\* stat'ed completes without raising, as does the update pass, and leaves the
\* status, progress and total of the task unchanged
MissingFileSwallowed ==
    \A k \in 1..MaxPlan :
        PolledWithoutFile(k) =>
            /\ ~last.raised
            /\ pc = "running"
            /\ tasks[last.node][k].status = "RUNNING"
            /\ tasks[last.node][k].progress = last.pre_tasks[k].progress
            /\ tasks[last.node][k].total = last.pre_tasks[k].total

\* the output file of the first task was removed after a poll had seen it,
\* and the next update pass ended in the exception of the stat, with the
\* second task not polled
MissingFileRaised ==
    /\ PolledWithoutFile(1)
    /\ last.raised
    /\ pc = "crashed"
    /\ Len(last.paths) = 1
    /\ Len(tasks[last.node]) = 2
\* the queue holds its candidates in the order of how often the loop has
\* polled them, the least polled first
LeastPolledFirst ==
    \A i, j \in 1..Len(nodes_to_check) :
        i < j => polls[nodes_to_check[i]] <= polls[nodes_to_check[j]]

\* C17: if every probe exits in the end, the acquisition loop ends, with the
\* accepted list at nnodes or with the queue empty; an iteration that finds
\* its candidate still CHECKING puts it at the tail of the queue, behind every
\* other queued candidate, and the head of the queue is always a candidate
\* polled no more often than any other
AcquisitionLoopEnds ==
    /\ [][(Acquiring /\ last'.op = "init_nodes" /\ status'[Head(nodes_to_check)] = "CHECKING")
            => nodes_to_check' = Append(Tail(nodes_to_check), Head(nodes_to_check))]_vars
    /\ [](Acquiring => LeastPolledFirst)
    /\ (Acquiring ~> LoopDone)

\* the loop has ended with nnodes accepted nodes after it had polled the
\* accepted candidate 1 twice and had put it behind two others in between
LoopEndedAfterSecondSweep ==
    /\ LoopDone
    /\ Len(nodes) = nnodes
    /\ polls[1] = 2
    /\ polls[2] >= 1
    /\ polls[3] >= 1
    /\ 1 \in Accepted
\* the k-th task the latest poll polled was RUNNING, or RUNNING_EARLY with its
\* output file there, and the file was at least STALL_TIMEOUT old
PolledStale(k) ==
    /\ StatTask(k)
    /\ last.pre_tasks[k].status \in {"RUNNING", "RUNNING_EARLY"}
    /\ Age(last.pre_tasks[k].proc_id) >= STALL_TIMEOUT_TICKS

\* what reading the output file would have made of the k-th task
HadItBeenRead(k) ==
    with_instances(last.pre_tasks[k], findall(files[last.pre_tasks[k].proc_id].content)).task

\* C18: a poll of a RUNNING task, or of a RUNNING_EARLY task whose file has
\* appeared, whose output file is at least STALL_TIMEOUT old makes the task
\* STALLED without reading the file, whatever markers the file holds, and
\* leaves progress and total as they were before the poll; a STALLED task is
\* never changed again, so it never becomes FINISHED
StallPrecedesCompletion ==
    /\ [](\A k \in 1..Len(last.paths) :
            PolledStale(k) =>
                /\ StalledBy(k)
                /\ last.paths[k] \notin ReadPaths
                /\ tasks[last.node][k].progress = last.pre_tasks[k].progress
                /\ tasks[last.node][k].total = last.pre_tasks[k].total)
    /\ [][\A n \in Cand : \A k \in 1..Len(tasks[n]) :
            tasks[n][k].status = "STALLED" => tasks'[n][k] = tasks[n][k]]_vars

\* a task that a poll had seen at 1 of 2 was polled again when its file, by
\* then ending in the marker 2 of 2, was STALL_TIMEOUT old: it is STALLED at
\* 1 of 2, and reading the file would have made it FINISHED
StalledWithFinalMarkerUnread ==
    /\ PolledStale(1)
    /\ last.pre_tasks[1].status = "RUNNING"
    /\ last.pre_tasks[1].progress = 1
    /\ HadItBeenRead(1).status = "FINISHED"
    /\ StalledBy(1)
    /\ tasks[last.node][1].progress = 1
\* dispatch has run to its end
DispatchDone == pc = "running"

\* C19: when dispatch has ended, each of the nnodes accepted nodes owns
\* ntasks_per_node tasks, with local_id 0..ntasks_per_node-1 in list order,
\* so nnodes * ntasks_per_node tasks have been launched, whatever ntasks is;
\* every task is RUNNING_EARLY from its dispatch until an update pass polls
\* it, and no task of any node is ever NOT_STARTED
DispatchFillsEverySlot ==
    /\ DispatchDone =>
          /\ Len(nodes) = nnodes
          /\ \A k \in 1..Len(nodes) :
                /\ Len(tasks[nodes[k]]) = ntasks_per_node
                /\ \A j \in 1..ntasks_per_node :
                      /\ tasks[nodes[k]][j].local_id = j - 1
                      /\ tasks[nodes[k]][j].node_id = k - 1
          /\ Cardinality({p \in ProcIds : Dispatched(p)}) = nnodes * ntasks_per_node
          /\ ntasks <= nnodes * ntasks_per_node
    /\ (pc = "assign" \/ (pc = "running" /\ last.op = "assign_task")) =>
          \A n \in Cand : \A j \in 1..Len(tasks[n]) : tasks[n][j].status = "RUNNING_EARLY"
    /\ \A n \in Cand : \A j \in 1..Len(tasks[n]) : tasks[n][j].status # "NOT_STARTED"

\* ntasks = 2 alone was planned as one node with four tasks, and the last of
\* the four dispatches has just been made: two more tasks than ntasks
FourLaunchedForTwoTasks ==
    /\ pc = "running"
    /\ last.op = "assign_task"
    /\ hints = [ntasks |-> 2, nnodes |-> 0, ntasks_per_node |-> 0]
    /\ ntasks = 2
    /\ nnodes = 1
    /\ Len(tasks[nodes[1]]) = 4
    /\ \A j \in 1..4 : tasks[nodes[1]][j].status = "RUNNING_EARLY"
\* C20: every node of a restored cluster is in the list of nodes without
\* having gone through the acquisition loop, and is what Node.__init__ and its
\* one poll make of it: CHECKING with nproc 0 while its new probe is in flight,
\* DOWN with nproc 0 once the probe has exited non-zero, UP with the printed
\* count once it has exited zero. While a node is CHECKING or DOWN no step
\* changes its tasks and no poll of it polls a task, whatever the output files
\* hold, and a DOWN node stays DOWN until the cluster is restored again
RestoredNodesWaitForProbe ==
    /\ [](RestoredNow =>
            /\ nodes = last.pre.nodes
            /\ nodes_to_check = <<>>
            /\ \A n \in Accepted :
                  /\ probe[n].st = "flight" => status[n] = "CHECKING" /\ nproc[n] = 0
                  /\ (probe[n].st = "exited" /\ probe[n].rc # 0) =>
                        status[n] = "DOWN" /\ nproc[n] = 0
                  /\ (probe[n].st = "exited" /\ probe[n].rc = 0) =>
                        status[n] = "UP" /\ nproc[n] = PrintedCount(probe[n].out))
    /\ [][\A n \in Accepted :
            status[n] \in {"CHECKING", "DOWN"} =>
                /\ tasks'[n] = tasks[n]
                /\ (last'.op = "update" /\ last'.node = n) => last'.paths = <<>>
                /\ (status[n] = "DOWN" /\ last'.op # "from_dict") => status'[n] = "DOWN"]_vars

\* an update pass polled a node that a restore had left CHECKING and whose new
\* probe then exited 255: the node is DOWN with nproc 0, and its task is
\* still RUNNING at 1 of 2 although its output file ends in the marker 2 of 2
DownAfterRestoreKeepsTask ==
    /\ last.op = "update"
    /\ last.pre_status = "DOWN"
    /\ probe[last.node] = Exited(255, <<"8">>)
    /\ nproc[last.node] = 0
    /\ last.paths = <<>>
    /\ Len(tasks[last.node]) = 1
    /\ tasks[last.node][1].status = "RUNNING"
    /\ tasks[last.node][1].progress = 1
    /\ with_instances(tasks[last.node][1],
                      findall(files[tasks[last.node][1].proc_id].content)).task.status
          = "FINISHED"
====
